---------------------------- MODULE Spec2Model ----------------------------
(***************************************************************************)
(* Bootstrap token lifecycle of bootstrap/kubeadm/controllers/token.go:    *)
(* createToken, getToken, refreshToken and shouldRotate, run by concurrent *)
(* callers against a shared Secret store, with a clock that advances       *)
(* between any two steps and other actors that delete or damage records.   *)
(*                                                                         *)
(* Time is counted in clock ticks, TicksPerSec of them in a second, so     *)
(* that the RFC 3339 text of a time (whole seconds) loses its sub-second   *)
(* part as time.Format does.                                               *)
(***************************************************************************)
EXTENDS Integers, Sequences, FiniteSets, TLC

(***************************************************************************)
(* Bounds of the model.                                                    *)
(***************************************************************************)
IdLen == 2
SecretLen == 3
HalfSec == 2
MaxClock == 5
MaxOps == 2
MaxExt == 1
Horizon == 20

\* Ticks in a second: an even number, as a second's nanoseconds are.
TicksPerSec == 2 * HalfSec

Procs == {1, 2}

\* Values of the package variable DefaultTokenTTL, in ticks: one second
\* and two seconds.
TTLValues == {TicksPerSec, 2 * TicksPerSec}

VARIABLES
    clock,            \* time.Now(), in ticks
    DefaultTokenTTL,  \* the package variable, in ticks
    store,            \* the Secret store: secret name -> Secret
    pc,               \* each caller's position
    tok,              \* each caller's token text (argument or generated)
    secret,           \* each caller's local *v1.Secret
    ret,              \* each caller's return value
    calls,            \* the store calls of each caller's current operation
    read,             \* the expiration text refreshToken / shouldRotate fetched
    now,              \* the time.Now() the operation read
    written,          \* secret name -> the time.Now() of the manager's last write
    ops,              \* operations started
    ext,              \* steps of other actors taken
    rec               \* what the reconciling caller remembers between calls

vars == <<clock, DefaultTokenTTL, store, pc, tok, secret, ret, calls, read,
          now, written, ops, ext, rec>>

(***************************************************************************)
(* Token texts.                                                            *)
(***************************************************************************)
\* [a-z0-9], cut to a few characters.
Charset == {"a", "b", "x", "y", "0"}

Rep(c, n) == [i \in 1..n |-> c]

TokenText(c, d) == Rep(c, IdLen) \o <<".">> \o Rep(d, SecretLen)

\* A text that fails the grammar: it has no delimiter.
MalformedTexts ==
    { Rep("a", IdLen) \o Rep("x", SecretLen + 1) }

\* What bootstraputil.GenerateBootstrapToken may hand back.
GenTexts ==
    { TokenText("a", "x"), TokenText("a", "y"), TokenText("b", "x"),
      TokenText("A", "x") }

\* The texts callers pass to getToken, refreshToken and shouldRotate.
TokenTexts ==
    { TokenText("a", "x"), TokenText("a", "y"), TokenText("b", "x") }
        \cup MalformedTexts

\* bootstraputil.BootstrapTokenRegexp, \A([a-z0-9]{6})\.([a-z0-9]{16})\z
Matches(t) ==
    /\ Len(t) = IdLen + 1 + SecretLen
    /\ \A i \in 1..IdLen : t[i] \in Charset
    /\ t[IdLen + 1] = "."
    /\ \A i \in (IdLen + 2)..(IdLen + 1 + SecretLen) : t[i] \in Charset

\* Regexp.FindStringSubmatch: the match and its two groups, or nothing.
FindStringSubmatch(t) ==
    IF Matches(t)
    THEN <<t, SubSeq(t, 1, IdLen), SubSeq(t, IdLen + 2, Len(t))>>
    ELSE <<>>

\* bootstraputil.BootstrapTokenSecretName
BootstrapTokenSecretName(tokenID) == <<"bootstrap-token-">> \o tokenID

(***************************************************************************)
(* Times and their RFC 3339 text.                                          *)
(***************************************************************************)
\* time.Time.Format(time.RFC3339): whole seconds, the rest is dropped.
Format(t) == [fmt |-> "rfc3339", sec |-> t \div TicksPerSec]

\* The text of a missing map entry, string(nil), and a text that is no time.
EmptyText == [fmt |-> "empty", sec |-> 0]
GarbageText == [fmt |-> "garbage", sec |-> 0]

\* time.Parse(time.RFC3339, s)
Parse(s) ==
    IF s.fmt = "rfc3339"
    THEN [err |-> "nil", time |-> s.sec * TicksPerSec]
    ELSE [err |-> "ParseError", time |-> 0]

(***************************************************************************)
(* Secrets.                                                                *)
(***************************************************************************)
ExpirationKey == "expiration"

NoSecret == [name |-> <<>>, nilData |-> TRUE, data |-> <<>>]

\* secret.Data[k] of a Go map: the zero value when the key is missing.
DataGet(s, k) == IF k \in DOMAIN s.data THEN s.data[k] ELSE EmptyText

\* secret.Data[k] = v
DataSet(s, k, v) ==
    [s EXCEPT !.data = [f \in DOMAIN s.data \cup {k} |->
                            IF f = k THEN v ELSE s.data[f]]]

\* The Secret of lines 51-66 with the TTL left out of the expiration.
NewSecret_NoTTL(tokenID, tokenSecret, t, ttl) ==
    [name |-> BootstrapTokenSecretName(tokenID),
     nilData |-> FALSE,
     data |-> [ f \in {"token-id", "token-secret", ExpirationKey,
                       "usage-bootstrap-signing",
                       "usage-bootstrap-authentication",
                       "auth-extra-groups", "description"} |->
                 CASE f = "token-id" -> tokenID
                   [] f = "token-secret" -> tokenSecret
                   [] f = ExpirationKey -> Format(t)
                   [] f = "usage-bootstrap-signing" -> "true"
                   [] f = "usage-bootstrap-authentication" -> "true"
                   [] f = "auth-extra-groups" ->
                          "system:bootstrappers:kubeadm:default-node-token"
                   [] OTHER ->
                          "token generated by cluster-api-bootstrap-provider-kubeadm" ]]

\* The Secret createToken builds.
NewSecret(tokenID, tokenSecret, t, ttl) ==
    [name |-> BootstrapTokenSecretName(tokenID),
     nilData |-> FALSE,
     data |-> [ f \in {"token-id", "token-secret", ExpirationKey,
                       "usage-bootstrap-signing",
                       "usage-bootstrap-authentication",
                       "auth-extra-groups", "description"} |->
                 CASE f = "token-id" -> tokenID
                   [] f = "token-secret" -> tokenSecret
                   [] f = ExpirationKey -> Format(t + ttl)
                   [] f = "usage-bootstrap-signing" -> "true"
                   [] f = "usage-bootstrap-authentication" -> "true"
                   [] f = "auth-extra-groups" ->
                          "system:bootstrappers:kubeadm:default-node-token"
                   [] OTHER ->
                          "token generated by cluster-api-bootstrap-provider-kubeadm" ]]

(***************************************************************************)
(* The Secret store: Create fails when the name exists, Get and Update     *)
(* fail when it is absent.                                                 *)
(***************************************************************************)
Has(st, name) == name \in DOMAIN st

Put(st, s) == [n \in DOMAIN st \cup {s.name} |-> IF n = s.name THEN s ELSE st[n]]

Remove(st, name) == [n \in DOMAIN st \ {name} |-> st[n]]

StoreCreate(st, s) ==
    IF Has(st, s.name)
    THEN [err |-> "AlreadyExists", store |-> st]
    ELSE [err |-> "nil", store |-> Put(st, s)]

StoreGet(st, name) ==
    IF Has(st, name)
    THEN [err |-> "nil", secret |-> st[name]]
    ELSE [err |-> "NotFound", secret |-> NoSecret]

StoreUpdate(st, s) ==
    IF Has(st, s.name)
    THEN [err |-> "nil", store |-> Put(st, s)]
    ELSE [err |-> "NotFound", store |-> st]

Call(op, name) == [op |-> op, name |-> name]

(***************************************************************************)
(* getToken                                                                *)
(***************************************************************************)
\* getToken taking the id from the head of the text without checking the
\* text against the grammar first.
getToken_Unchecked(st, token) ==
    LET secretName == BootstrapTokenSecretName(SubSeq(token, 1, IdLen))
        got == StoreGet(st, secretName)
    IN  IF got.err # "nil"
        THEN [secret |-> got.secret, err |-> got.err,
              calls |-> <<Call("Get", secretName)>>]
        ELSE IF got.secret.nilData
        THEN [secret |-> NoSecret, err |-> "InvalidSecret",
              calls |-> <<Call("Get", secretName)>>]
        ELSE [secret |-> got.secret, err |-> "nil",
              calls |-> <<Call("Get", secretName)>>]

\* getToken holding the text's secret against the stored one before it
\* returns the Secret.
getToken_CheckSecret(st, token) ==
    LET substrs == FindStringSubmatch(token) IN
    IF Len(substrs) # 3
    THEN [secret |-> NoSecret, err |-> "Malformed", calls |-> <<>>]
    ELSE LET secretName == BootstrapTokenSecretName(substrs[2])
             got == StoreGet(st, secretName)
         IN  IF got.err # "nil"
             THEN [secret |-> got.secret, err |-> got.err,
                   calls |-> <<Call("Get", secretName)>>]
             ELSE IF got.secret.nilData
             THEN [secret |-> NoSecret, err |-> "InvalidSecret",
                   calls |-> <<Call("Get", secretName)>>]
             ELSE IF /\ "token-secret" \in DOMAIN got.secret.data
                     /\ got.secret.data["token-secret"] # substrs[3]
             THEN [secret |-> NoSecret, err |-> "WrongSecret",
                   calls |-> <<Call("Get", secretName)>>]
             ELSE [secret |-> got.secret, err |-> "nil",
                   calls |-> <<Call("Get", secretName)>>]

\* Lines 75-92
getToken(st, token) ==
    LET substrs == FindStringSubmatch(token) IN
    IF Len(substrs) # 3
    THEN [secret |-> NoSecret, err |-> "Malformed", calls |-> <<>>]
    ELSE LET secretName == BootstrapTokenSecretName(substrs[2])
             got == StoreGet(st, secretName)
         IN  IF got.err # "nil"
             THEN [secret |-> got.secret, err |-> got.err,
                   calls |-> <<Call("Get", secretName)>>]
             ELSE IF got.secret.nilData
             THEN [secret |-> NoSecret, err |-> "InvalidSecret",
                   calls |-> <<Call("Get", secretName)>>]
             ELSE [secret |-> got.secret, err |-> "nil",
                   calls |-> <<Call("Get", secretName)>>]

(***************************************************************************)
(* State.                                                                  *)
(***************************************************************************)
NoRet == [err |-> "none", token |-> <<>>, rotate |-> FALSE]
Never == 0 - 1

\* The reconciling caller's memory: the clock value of its last
\* shouldRotate, and whether that one answered true.
NoRec == [last |-> Never, due |-> FALSE]

\* The store the callers start against: empty, or holding the Secret of a
\* token that createToken wrote at time 0.
InitialStores(ttl) ==
    { <<>>,
      Put(<<>>, NewSecret(Rep("a", IdLen), Rep("x", SecretLen), 0, ttl)) }

Init ==
    /\ clock = 0
    /\ DefaultTokenTTL \in TTLValues
    /\ store \in InitialStores(DefaultTokenTTL)
    /\ pc = [p \in Procs |-> "idle"]
    /\ tok = [p \in Procs |-> <<>>]
    /\ secret = [p \in Procs |-> NoSecret]
    /\ ret = [p \in Procs |-> NoRet]
    /\ calls = [p \in Procs |-> <<>>]
    /\ read = [p \in Procs |-> EmptyText]
    /\ now = [p \in Procs |-> Never]
    /\ written = [n \in DOMAIN store |-> 0]
    /\ ops = 0
    /\ ext = 0
    /\ rec = NoRec

Returned == {"createToken:ret", "getToken:ret", "refreshToken:ret",
             "shouldRotate:ret"}

\* A caller that is in no operation starts one.
Begin(p) ==
    /\ pc[p] = "idle"
    /\ ops < MaxOps
    /\ ops' = ops + 1

\* The caller's position and locals after a step.
Go(p, at, t, s, r, c, rd, nw) ==
    /\ pc' = [pc EXCEPT ![p] = at]
    /\ tok' = [tok EXCEPT ![p] = t]
    /\ secret' = [secret EXCEPT ![p] = s]
    /\ ret' = [ret EXCEPT ![p] = r]
    /\ calls' = [calls EXCEPT ![p] = c]
    /\ read' = [read EXCEPT ![p] = rd]
    /\ now' = [now EXCEPT ![p] = nw]

Err(e) == [NoRet EXCEPT !.err = e]

\* The operation has returned; its caller goes on.
Return(p) ==
    /\ pc[p] \in Returned
    /\ Go(p, "idle", <<>>, NoSecret, NoRet, <<>>, EmptyText, Never)
    /\ UNCHANGED <<clock, DefaultTokenTTL, rec, store, written, ops, ext>>

(***************************************************************************)
(* createToken                                                             *)
(***************************************************************************)
\* bootstraputil.GenerateBootstrapToken: a text, or an error.
GenOutcomes ==
    {[token |-> t, err |-> "nil"] : t \in GenTexts}
        \cup {[token |-> <<>>, err |-> "Generate"]}

\* Lines 38-66: draw the text, check it against the grammar, build the Secret.
createToken_Build(p) ==
    /\ Begin(p)
    /\ \E g \in GenOutcomes :
         LET substrs == FindStringSubmatch(g.token) IN
         IF g.err # "nil"
         THEN Go(p, "createToken:ret", <<>>, NoSecret, Err(g.err), <<>>,
                 EmptyText, Never)
         ELSE IF Len(substrs) # 3
         THEN Go(p, "createToken:ret", g.token, NoSecret, Err("Malformed"),
                 <<>>, EmptyText, Never)
         ELSE Go(p, "createToken:68", g.token,
                 NewSecret(substrs[2], substrs[3], clock, DefaultTokenTTL),
                 NoRet, <<>>, EmptyText, clock)
    /\ UNCHANGED <<clock, DefaultTokenTTL, rec, store, written, ext>>

\* Lines 68-71 with the Secret written over an existing one.
createToken_Create_Overwrite(p) ==
    /\ pc[p] = "createToken:68"
    /\ store' = Put(store, secret[p])
    /\ Go(p, "createToken:ret", tok[p], NoSecret,
          [NoRet EXCEPT !.err = "nil", !.token = tok[p]],
          Append(calls[p], Call("Create", secret[p].name)), EmptyText, Never)
    /\ written' = [n \in DOMAIN written \cup {secret[p].name} |->
                      IF n = secret[p].name THEN now[p] ELSE written[n]]
    /\ UNCHANGED <<clock, DefaultTokenTTL, rec, ops, ext>>

\* Lines 68-71: c.Create, and the text on success.
createToken_Create(p) ==
    /\ pc[p] = "createToken:68"
    /\ LET r == StoreCreate(store, secret[p]) IN
         /\ store' = r.store
         /\ Go(p, "createToken:ret", tok[p], NoSecret,
               IF r.err # "nil" THEN Err(r.err)
               ELSE [NoRet EXCEPT !.err = "nil", !.token = tok[p]],
               Append(calls[p], Call("Create", secret[p].name)),
               EmptyText, Never)
         /\ written' = IF r.err # "nil" THEN written
                       ELSE [n \in DOMAIN written \cup {secret[p].name} |->
                               IF n = secret[p].name THEN now[p] ELSE written[n]]
    /\ UNCHANGED <<clock, DefaultTokenTTL, rec, ops, ext>>

(***************************************************************************)
(* getToken, called on its own                                             *)
(***************************************************************************)
\* getToken removing the Secret it finds invalid ("remove the token ... to
\* re-create", line 89) instead of only reporting it.
getToken_Call_Repair(p) ==
    /\ Begin(p)
    /\ \E token \in TokenTexts :
         LET g == getToken(store, token) IN
         /\ Go(p, "getToken:ret", token, g.secret, Err(g.err),
               IF g.err = "InvalidSecret"
               THEN Append(g.calls, Call("Delete", g.calls[1].name))
               ELSE g.calls,
               EmptyText, Never)
         /\ store' = IF g.err = "InvalidSecret"
                     THEN Remove(store, g.calls[1].name) ELSE store
    /\ UNCHANGED <<clock, DefaultTokenTTL, rec, written, ext>>

getToken_Call(p) ==
    /\ Begin(p)
    /\ \E token \in TokenTexts :
         LET g == getToken(store, token) IN
         Go(p, "getToken:ret", token, g.secret, Err(g.err), g.calls,
            EmptyText, Never)
    /\ UNCHANGED <<clock, DefaultTokenTTL, rec, store, written, ext>>

(***************************************************************************)
(* refreshToken                                                            *)
(***************************************************************************)
\* Lines 96-99 with a second getToken when the first one failed.
refreshToken_getToken_Retry(p) ==
    /\ Begin(p)
    /\ \E token \in TokenTexts :
         LET g == getToken(store, token) IN
         IF g.err # "nil"
         THEN Go(p, "refreshToken:ret", token, NoSecret, Err(g.err),
                 g.calls \o g.calls, EmptyText, Never)
         ELSE Go(p, "refreshToken:100", token, g.secret, NoRet, g.calls,
                 DataGet(g.secret, ExpirationKey), Never)
    /\ UNCHANGED <<clock, DefaultTokenTTL, rec, store, written, ext>>

\* Lines 96-99
refreshToken_getToken(p) ==
    /\ Begin(p)
    /\ \E token \in TokenTexts :
         LET g == getToken(store, token) IN
         IF g.err # "nil"
         THEN Go(p, "refreshToken:ret", token, NoSecret, Err(g.err), g.calls,
                 EmptyText, Never)
         ELSE Go(p, "refreshToken:100", token, g.secret, NoRet, g.calls,
                 DataGet(g.secret, ExpirationKey), Never)
    /\ UNCHANGED <<clock, DefaultTokenTTL, rec, store, written, ext>>

\* Line 100 with the TTL left out of the new expiration.
refreshToken_SetExpiration_NoTTL(p) ==
    /\ pc[p] = "refreshToken:100"
    /\ Go(p, "refreshToken:102", tok[p],
          DataSet(secret[p], ExpirationKey, Format(clock)),
          NoRet, calls[p], read[p], clock)
    /\ UNCHANGED <<clock, DefaultTokenTTL, rec, store, written, ops, ext>>

\* Line 100 assigning a new Data map that holds the expiration alone.
refreshToken_SetExpiration_NewData(p) ==
    /\ pc[p] = "refreshToken:100"
    /\ Go(p, "refreshToken:102", tok[p],
          [secret[p] EXCEPT !.data =
              [f \in {ExpirationKey} |-> Format(clock + DefaultTokenTTL)]],
          NoRet, calls[p], read[p], clock)
    /\ UNCHANGED <<clock, DefaultTokenTTL, rec, store, written, ops, ext>>

\* Line 100
refreshToken_SetExpiration(p) ==
    /\ pc[p] = "refreshToken:100"
    /\ Go(p, "refreshToken:102", tok[p],
          DataSet(secret[p], ExpirationKey, Format(clock + DefaultTokenTTL)),
          NoRet, calls[p], read[p], clock)
    /\ UNCHANGED <<clock, DefaultTokenTTL, rec, store, written, ops, ext>>

\* Line 102 written as create-or-update: the Secret is put back whether or
\* not it is still there.
refreshToken_Update_Upsert(p) ==
    /\ pc[p] = "refreshToken:102"
    /\ store' = Put(store, secret[p])
    /\ Go(p, "refreshToken:ret", tok[p], NoSecret, Err("nil"),
          Append(calls[p], Call("Update", secret[p].name)), read[p], Never)
    /\ written' = [n \in DOMAIN written \cup {secret[p].name} |->
                      IF n = secret[p].name THEN now[p] ELSE written[n]]
    /\ UNCHANGED <<clock, DefaultTokenTTL, rec, ops, ext>>

\* Line 102
refreshToken_Update(p) ==
    /\ pc[p] = "refreshToken:102"
    /\ LET r == StoreUpdate(store, secret[p]) IN
         /\ store' = r.store
         /\ Go(p, "refreshToken:ret", tok[p], NoSecret, Err(r.err),
               Append(calls[p], Call("Update", secret[p].name)),
               read[p], Never)
         /\ written' = IF r.err # "nil" THEN written
                       ELSE [n \in DOMAIN written \cup {secret[p].name} |->
                               IF n = secret[p].name THEN now[p] ELSE written[n]]
    /\ UNCHANGED <<clock, DefaultTokenTTL, rec, ops, ext>>

(***************************************************************************)
(* shouldRotate                                                            *)
(***************************************************************************)
\* Line 116 with the whole TTL as the margin.
RotationDecision_FullTTL(s, t, ttl) ==
    LET expiration == Parse(DataGet(s, ExpirationKey)) IN
    IF expiration.err # "nil"
    THEN [rotate |-> FALSE, err |-> expiration.err]
    ELSE [rotate |-> expiration.time < t + ttl, err |-> "nil"]

\* Lines 113-115 left out: a Secret whose expiration does not parse never
\* expires.
RotationDecision_NeverExpires(s, t, ttl) ==
    LET expiration == Parse(DataGet(s, ExpirationKey)) IN
    IF expiration.err # "nil"
    THEN [rotate |-> FALSE, err |-> "nil"]
    ELSE [rotate |-> expiration.time < t + (ttl \div 2), err |-> "nil"]

\* Line 116 with "not after" in place of Before.
RotationDecision_NotAfter(s, t, ttl) ==
    LET expiration == Parse(DataGet(s, ExpirationKey)) IN
    IF expiration.err # "nil"
    THEN [rotate |-> FALSE, err |-> expiration.err]
    ELSE [rotate |-> expiration.time <= t + (ttl \div 2), err |-> "nil"]

\* Line 116 without the margin: rotate once the expiration has passed.
RotationDecision_NoMargin(s, t, ttl) ==
    LET expiration == Parse(DataGet(s, ExpirationKey)) IN
    IF expiration.err # "nil"
    THEN [rotate |-> FALSE, err |-> expiration.err]
    ELSE [rotate |-> expiration.time < t, err |-> "nil"]

\* Lines 112-116, on the Secret getToken returned, at time t.
RotationDecision(s, t, ttl) ==
    LET expiration == Parse(DataGet(s, ExpirationKey)) IN
    IF expiration.err # "nil"
    THEN [rotate |-> FALSE, err |-> expiration.err]
    ELSE [rotate |-> expiration.time < t + (ttl \div 2), err |-> "nil"]

\* Lines 107-110
shouldRotate_getToken(p) ==
    /\ Begin(p)
    /\ \E token \in TokenTexts :
         LET g == getToken(store, token) IN
         IF g.err # "nil"
         THEN Go(p, "shouldRotate:ret", token, NoSecret, Err(g.err), g.calls,
                 EmptyText, Never)
         ELSE Go(p, "shouldRotate:112", token, g.secret, NoRet, g.calls,
                 EmptyText, Never)
    /\ UNCHANGED <<clock, DefaultTokenTTL, rec, store, written, ext>>

\* Lines 112-116
shouldRotate_Decide(p) ==
    /\ pc[p] = "shouldRotate:112"
    /\ LET d == RotationDecision(secret[p], clock, DefaultTokenTTL) IN
         Go(p, "shouldRotate:ret", tok[p], NoSecret,
            [NoRet EXCEPT !.err = d.err, !.rotate = d.rotate],
            calls[p], DataGet(secret[p], ExpirationKey), clock)
    /\ UNCHANGED <<clock, DefaultTokenTTL, rec, store, written, ops, ext>>

(***************************************************************************)
(* The clock and the other actors on the store.                            *)
(***************************************************************************)
Tick ==
    /\ clock < MaxClock
    /\ clock' = clock + 1
    /\ UNCHANGED <<DefaultTokenTTL, rec, store, pc, tok, secret, ret, calls, read,
                   now, written, ops, ext>>

\* Another actor deletes a record.
ExtDelete ==
    /\ ext < MaxExt
    /\ \E name \in DOMAIN store :
         /\ store' = Remove(store, name)
         /\ written' = Remove(written, name)
    /\ ext' = ext + 1
    /\ UNCHANGED <<clock, DefaultTokenTTL, rec, pc, tok, secret, ret, calls, read,
                   now, ops>>

\* What another writer may leave behind: no data at all, no expiration
\* entry, an expiration that is no RFC 3339 time.
Damaged(s) ==
    { [s EXCEPT !.nilData = TRUE, !.data = <<>>],
      [s EXCEPT !.data = [f \in DOMAIN s.data \ {ExpirationKey} |-> s.data[f]]],
      DataSet(s, ExpirationKey, GarbageText) }

ExtDamage ==
    /\ ext < MaxExt
    /\ \E name \in DOMAIN store :
         /\ ~store[name].nilData
         /\ \E s \in Damaged(store[name]) :
              /\ s # store[name]
              /\ store' = Put(store, s)
         /\ written' = Remove(written, name)
    /\ ext' = ext + 1
    /\ UNCHANGED <<clock, DefaultTokenTTL, rec, pc, tok, secret, ret, calls, read,
                   now, ops>>

Next ==
    \/ \E p \in Procs : createToken_Build(p)
    \/ \E p \in Procs : createToken_Create(p)
    \/ \E p \in Procs : getToken_Call(p)
    \/ \E p \in Procs : refreshToken_getToken(p)
    \/ \E p \in Procs : refreshToken_SetExpiration(p)
    \/ \E p \in Procs : refreshToken_Update(p)
    \/ \E p \in Procs : shouldRotate_getToken(p)
    \/ \E p \in Procs : shouldRotate_Decide(p)
    \/ \E p \in Procs : Return(p)
    \/ Tick
    \/ ExtDelete
    \/ ExtDamage

Spec == Init /\ [][Next]_vars

(***************************************************************************)
(* A reconciling caller: one caller that keeps one created token alive. A  *)
(* pass calls shouldRotate and, when the answer is true, refreshToken; the *)
(* clock advances between passes, and the next shouldRotate comes less     *)
(* than DefaultTokenTTL/2 after the last one. No other actor touches the   *)
(* store.                                                                  *)
(***************************************************************************)
Reconciler == CHOOSE p \in Procs : TRUE

\* The token the reconciler tracks, and its Secret's name.
RecToken == TokenText("a", "x")
RecName == BootstrapTokenSecretName(Rep("a", IdLen))

\* createToken has just written the token's Secret, at any point of a second.
RecInit ==
    /\ clock \in 0..(TicksPerSec - 1)
    /\ DefaultTokenTTL \in TTLValues
    /\ store = Put(<<>>, NewSecret(Rep("a", IdLen), Rep("x", SecretLen),
                                   clock, DefaultTokenTTL))
    /\ pc = [p \in Procs |-> "idle"]
    /\ tok = [p \in Procs |-> <<>>]
    /\ secret = [p \in Procs |-> NoSecret]
    /\ ret = [p \in Procs |-> NoRet]
    /\ calls = [p \in Procs |-> <<>>]
    /\ read = [p \in Procs |-> EmptyText]
    /\ now = [p \in Procs |-> Never]
    /\ written = [n \in DOMAIN store |-> clock]
    /\ ops = 0
    /\ ext = 0
    /\ rec = [last |-> clock, due |-> FALSE]

\* A pass begins: shouldRotate on the token.
Reconcile_shouldRotate ==
    /\ ops = 0
    /\ shouldRotate_getToken(Reconciler)
    /\ tok'[Reconciler] = RecToken

Reconcile_Decide == shouldRotate_Decide(Reconciler)

\* shouldRotate has returned: the caller keeps the answer, and the pass is
\* over when it is false.
Reconcile_Branch ==
    /\ pc[Reconciler] = "shouldRotate:ret"
    /\ LET due == ret[Reconciler].err = "nil" /\ ret[Reconciler].rotate IN
         /\ rec' = [last |-> now[Reconciler], due |-> due]
         /\ ops' = IF due THEN ops ELSE 0
    /\ Go(Reconciler, "idle", <<>>, NoSecret, NoRet, <<>>, EmptyText, Never)
    /\ UNCHANGED <<clock, DefaultTokenTTL, store, written, ext>>

\* The answer was true: refreshToken on the token.
Reconcile_refreshToken ==
    /\ rec.due
    /\ refreshToken_getToken(Reconciler)
    /\ tok'[Reconciler] = RecToken

Reconcile_SetExpiration == refreshToken_SetExpiration(Reconciler)

Reconcile_Update == refreshToken_Update(Reconciler)

\* refreshToken has returned: the pass is over.
Reconcile_Done ==
    /\ pc[Reconciler] = "refreshToken:ret"
    /\ rec' = [rec EXCEPT !.due = FALSE]
    /\ ops' = 0
    /\ Go(Reconciler, "idle", <<>>, NoSecret, NoRet, <<>>, EmptyText, Never)
    /\ UNCHANGED <<clock, DefaultTokenTTL, store, written, ext>>

\* Time passes between passes, as long as the next shouldRotate can still
\* come less than DefaultTokenTTL/2 after the last one.
Reconcile_Tick ==
    /\ pc[Reconciler] = "idle"
    /\ ops = 0
    /\ clock < Horizon
    /\ 2 * (clock + 1 - rec.last) < DefaultTokenTTL
    /\ clock' = clock + 1
    /\ UNCHANGED <<DefaultTokenTTL, store, pc, tok, secret, ret, calls, read,
                   now, written, ops, ext, rec>>

Reconcile_Pass ==
    \/ Reconcile_shouldRotate
    \/ Reconcile_Decide
    \/ Reconcile_Branch
    \/ Reconcile_refreshToken
    \/ Reconcile_SetExpiration
    \/ Reconcile_Update
    \/ Reconcile_Done

RecNext ==
    \/ Reconcile_shouldRotate
    \/ Reconcile_Decide
    \/ Reconcile_Branch
    \/ Reconcile_refreshToken
    \/ Reconcile_SetExpiration
    \/ Reconcile_Update
    \/ Reconcile_Done
    \/ Reconcile_Tick

\* The reconciler keeps running: a pass that can go on does go on.
RecSpec == RecInit /\ [][RecNext]_vars /\ WF_vars(Reconcile_Pass)


(***************************************************************************)
(* Properties.                                                             *)
(***************************************************************************)
\* The Secret name of a well-formed token text.
NameOf(token) == BootstrapTokenSecretName(FindStringSubmatch(token)[2])

\* The errors the specification calls CorruptRecordError.
CorruptRecord == {"InvalidSecret", "ParseError"}

\* Caller p takes the step from position a to position b.
Step(p, a, b) == pc[p] = a /\ pc'[p] = b

\* C1: refreshToken never resurrects a deleted record. When the Secret is
\* gone from the store at the moment refreshToken calls Update (it was
\* there at its Get, or refreshToken would have returned), refreshToken
\* returns the store's NotFound error and the store holds no Secret of that
\* name afterwards.
C1_NoResurrection ==
    [][\A p \in Procs :
         (Step(p, "refreshToken:102", "refreshToken:ret")
            /\ ~Has(store, secret[p].name))
         => /\ ret'[p].err = "NotFound"
            /\ ~Has(store', secret[p].name)]_vars

\* A refreshToken whose Get found the Secret and whose Update did not.
C1_Witness ==
    \E p \in Procs :
        /\ pc[p] = "refreshToken:ret"
        /\ ret[p].err = "NotFound"
        /\ Len(calls[p]) = 2
        /\ calls[p][2].op = "Update"
        /\ ~Has(store, calls[p][2].name)

\* C2: of the createToken calls that draw the same id, one succeeds. A
\* call whose Secret name is taken returns AlreadyExists (ConflictError)
\* and leaves the store as it was; a call whose name is free succeeds and
\* the store holds the Secret it built; and two callers never both hold a
\* success for the same id unless another actor deleted the first record.
C2_CreateOnce ==
    /\ [][\A p \in Procs :
            Step(p, "createToken:68", "createToken:ret")
            => IF Has(store, secret[p].name)
               THEN ret'[p].err = "AlreadyExists" /\ store' = store
               ELSE /\ ret'[p].err = "nil"
                    /\ ret'[p].token = tok[p]
                    /\ store' = Put(store, secret[p])]_vars
    /\ [](\A p, q \in Procs :
            (/\ p # q
             /\ pc[p] = "createToken:ret" /\ pc[q] = "createToken:ret"
             /\ ret[p].err = "nil" /\ ret[q].err = "nil"
             /\ NameOf(ret[p].token) = NameOf(ret[q].token))
            => ext > 0)

\* Two createToken calls drew the same id with different secrets: one
\* succeeded, the other got AlreadyExists, and the store holds the first
\* one's secret.
C2_Witness ==
    \E p, q \in Procs :
        /\ pc[p] = "createToken:ret" /\ ret[p].err = "nil"
        /\ pc[q] = "createToken:ret" /\ ret[q].err = "AlreadyExists"
        /\ Matches(tok[q]) /\ tok[q] # tok[p]
        /\ NameOf(tok[q]) = NameOf(tok[p])
        /\ Has(store, NameOf(tok[p]))
        /\ ~store[NameOf(tok[p])].nilData
        /\ store[NameOf(tok[p])].data["token-secret"]
               = FindStringSubmatch(tok[p])[3]
        /\ store[NameOf(tok[p])].data["token-secret"]
               # FindStringSubmatch(tok[q])[3]

\* C3: getToken on a text that fails the grammar returns the malformed-text
\* error and makes no store call; so do refreshToken and shouldRotate, which
\* call getToken first.
C3_MalformedNoStoreCall ==
    \A p \in Procs :
        (pc[p] \in {"getToken:ret", "refreshToken:ret", "shouldRotate:ret"}
           /\ ~Matches(tok[p]))
        => /\ ret[p].err = "Malformed"
           /\ calls[p] = <<>>

\* A refreshToken that was handed a malformed text has returned.
C3_Witness ==
    \E p \in Procs :
        /\ pc[p] = "refreshToken:ret"
        /\ tok[p] \in MalformedTexts
        /\ ret[p].err = "Malformed"

\* C4: getToken on a well-formed text returns NotFound when the store has
\* no Secret of that name, and CorruptRecordError when the Secret is there
\* but has no expiration entry (or no data at all): it does not hand such a
\* Secret back as valid.
C4_CorruptRecordRejected ==
    [][\A p \in Procs :
         (Step(p, "idle", "getToken:ret") /\ Matches(tok'[p]))
         => LET name == NameOf(tok'[p]) IN
            /\ ~Has(store, name) => ret'[p].err = "NotFound"
            /\ (Has(store, name)
                  /\ (store[name].nilData
                        \/ ExpirationKey \notin DOMAIN store[name].data))
               => ret'[p].err \in CorruptRecord]_vars

\* The time of an expiration text that is an RFC 3339 time, in ticks.
TimeOf(text) == text.sec * TicksPerSec

IsTime(text) == text.fmt = "rfc3339"

\* A time cut to whole seconds.
TruncSec(t) == (t \div TicksPerSec) * TicksPerSec

\* Caller p's refreshToken makes its Update and it succeeds.
UpdateOk(p) ==
    /\ Step(p, "refreshToken:102", "refreshToken:ret")
    /\ ret'[p].err = "nil"

\* C5 as stated: after every successful refreshToken the stored expiration
\* is strictly later than the one the call found and equals now + TTL.
C5_StrictlyForward ==
    [][\A p \in Procs :
         UpdateOk(p)
         => LET after == DataGet(store'[secret[p].name], ExpirationKey) IN
            /\ IsTime(after)
            /\ IsTime(read[p]) => TimeOf(after) > TimeOf(read[p])
            /\ TimeOf(after) = now[p] + DefaultTokenTTL]_vars

\* C5, amended: after every successful refreshToken the stored expiration
\* is now + TTL cut to whole seconds, now being the clock value the call
\* read, and it is not earlier than the expiration the call fetched.
C5_Forward ==
    [][\A p \in Procs :
         UpdateOk(p)
         => LET after == DataGet(store'[secret[p].name], ExpirationKey) IN
            /\ IsTime(after)
            /\ IsTime(read[p]) => TimeOf(after) >= TimeOf(read[p])
            /\ TimeOf(after) = TruncSec(now[p] + DefaultTokenTTL)]_vars

\* A refreshToken succeeded alone and left the expiration it found, and
\* the clock had a sub-second part when it was read.
C5_Witness ==
    \E p \in Procs :
        /\ pc[p] = "refreshToken:ret"
        /\ ret[p].err = "nil"
        /\ ext = 0
        /\ \A q \in Procs \ {p} : pc[q] = "idle"
        /\ Has(store, NameOf(tok[p]))
        /\ IsTime(read[p])
        /\ DataGet(store[NameOf(tok[p])], ExpirationKey) = read[p]
        /\ written[NameOf(tok[p])] % TicksPerSec # 0

\* C6: on a Secret whose expiration parses, shouldRotate answers without
\* error, and answers true exactly when the expiration is before
\* now + TTL/2; at expiration = now + TTL/2 the answer is false.
C6_RotateIffBeforeHalf ==
    \A p \in Procs :
        (pc[p] = "shouldRotate:ret" /\ IsTime(read[p]))
        => /\ ret[p].err = "nil"
           /\ ret[p].rotate <=>
                 (TimeOf(read[p]) < now[p] + (DefaultTokenTTL \div 2))

\* shouldRotate answered false with the expiration exactly at now + TTL/2.
C6_Witness ==
    \E p \in Procs :
        /\ pc[p] = "shouldRotate:ret"
        /\ IsTime(read[p])
        /\ TimeOf(read[p]) = now[p] + (DefaultTokenTTL \div 2)
        /\ ret[p].err = "nil"
        /\ ~ret[p].rotate

\* What shouldRotate returns when it runs in the current state.
ShouldRotateNow(token) ==
    LET g == getToken(store, token) IN
    IF g.err # "nil"
    THEN [rotate |-> FALSE, err |-> g.err]
    ELSE RotationDecision(g.secret, clock, DefaultTokenTTL)

\* For every Secret last written by createToken or refreshToken and not
\* touched since: shouldRotate is false while the clock is where that
\* operation read it, and true once the clock is more than TTL/2 past it.
FreshThenDue ==
    \A token \in TokenTexts :
        (Matches(token) /\ NameOf(token) \in DOMAIN written)
        => LET since == clock - written[NameOf(token)]
               r == ShouldRotateNow(token)
           IN  /\ since = 0 => (r.err = "nil" /\ ~r.rotate)
               /\ 2 * since > DefaultTokenTTL => (r.err = "nil" /\ r.rotate)

\* C7 as stated: with a fixed DefaultTTL, shouldRotate is false right after
\* a successful createToken or refreshToken and true once the clock has
\* advanced by more than DefaultTTL/2 with no refresh in between.
C7_FreshThenDue == FreshThenDue

\* C7, amended: the same for a DefaultTTL of a whole number of seconds, at
\* least two.
C7_FreshThenDue_TwoSeconds ==
    DefaultTokenTTL >= 2 * TicksPerSec => FreshThenDue

\* The token was due (its expiration was before now + TTL/2 when the
\* refresh read the clock), refreshToken succeeded, and shouldRotate is
\* false again.
C7_Witness ==
    \E p \in Procs :
        /\ pc[p] = "refreshToken:ret"
        /\ ret[p].err = "nil"
        /\ DefaultTokenTTL >= 2 * TicksPerSec
        /\ IsTime(read[p])
        /\ NameOf(tok[p]) \in DOMAIN written
        /\ clock = written[NameOf(tok[p])]
        /\ TimeOf(read[p]) < clock + (DefaultTokenTTL \div 2)
        /\ ShouldRotateNow(tok[p]).err = "nil"
        /\ ~ShouldRotateNow(tok[p]).rotate

\* C8: shouldRotate on a Secret whose expiration is missing or does not
\* parse returns an error and the answer false, never an answer with a nil
\* error: a Secret without expiration is not taken as never expiring.
C8_NoAnswerWithoutExpiration ==
    /\ [][\A p \in Procs :
            /\ (Step(p, "shouldRotate:112", "shouldRotate:ret")
                  /\ ~IsTime(DataGet(secret[p], ExpirationKey)))
               => (ret'[p].err \in CorruptRecord /\ ~ret'[p].rotate)
            /\ (Step(p, "idle", "shouldRotate:ret") /\ Matches(tok'[p])
                  /\ Has(store, NameOf(tok'[p])))
               => (ret'[p].err \in CorruptRecord /\ ~ret'[p].rotate)]_vars
    /\ [](\A p \in Procs :
            (pc[p] = "shouldRotate:ret" /\ ret[p].err = "nil")
            => IsTime(read[p]))

\* shouldRotate returned the parse error on a Secret with no expiration
\* entry.
C8_Witness ==
    \E p \in Procs :
        /\ pc[p] = "shouldRotate:ret"
        /\ ret[p].err = "ParseError"
        /\ ~ret[p].rotate
        /\ read[p] = EmptyText
        /\ Len(calls[p]) = 1

\* createToken's step at line 68 succeeded and left in the store, under the
\* name of the returned text's id, a Secret with that id and secret, the
\* expiration at time t, and both usage flags.
CreatedAsReturned(p, t) ==
    LET text == ret'[p].token
        substrs == FindStringSubmatch(text)
        name == <<"bootstrap-token-">> \o SubSeq(text, 1, IdLen)
    IN  /\ Matches(text)
        /\ Has(store', name)
        /\ ~store'[name].nilData
        /\ store'[name].data["token-id"] = substrs[2]
        /\ store'[name].data["token-secret"] = substrs[3]
        /\ IsTime(DataGet(store'[name], ExpirationKey))
        /\ TimeOf(DataGet(store'[name], ExpirationKey)) = t
        /\ store'[name].data["usage-bootstrap-signing"] = "true"
        /\ store'[name].data["usage-bootstrap-authentication"] = "true"

\* createToken returns an error and writes nothing when the generated text
\* fails the grammar (or no text was generated).
NoTextNoWrite ==
    /\ [][\A p \in Procs :
            Step(p, "idle", "createToken:ret")
            => (ret'[p].err # "nil" /\ store' = store /\ calls'[p] = <<>>)]_vars
    /\ [](\A p \in Procs :
            (pc[p] = "createToken:ret" /\ ~Matches(tok[p]))
            => (ret[p].err # "nil" /\ calls[p] = <<>>))

\* C9 as stated: the Secret of a successful createToken has
\* expiration = now + DefaultTTL.
C9_CreatedRecord ==
    /\ [][\A p \in Procs :
            (Step(p, "createToken:68", "createToken:ret")
               /\ ret'[p].err = "nil")
            => CreatedAsReturned(p, now[p] + DefaultTokenTTL)]_vars
    /\ NoTextNoWrite

\* C9, amended: the expiration is now + DefaultTTL cut to whole seconds.
C9_CreatedRecord_WholeSeconds ==
    /\ [][\A p \in Procs :
            (Step(p, "createToken:68", "createToken:ret")
               /\ ret'[p].err = "nil")
            => CreatedAsReturned(p, TruncSec(now[p] + DefaultTokenTTL))]_vars
    /\ NoTextNoWrite

\* A createToken succeeded at a clock value with a sub-second part that the
\* stored expiration has lost.
C9_Witness ==
    \E p \in Procs :
        /\ pc[p] = "createToken:ret"
        /\ ret[p].err = "nil"
        /\ NameOf(ret[p].token) \in DOMAIN written
        /\ store[NameOf(ret[p].token)].data["token-secret"]
               = FindStringSubmatch(ret[p].token)[3]
        /\ TimeOf(DataGet(store[NameOf(ret[p].token)], ExpirationKey))
               < written[NameOf(ret[p].token)] + DefaultTokenTTL

\* C10: under concurrent refreshToken calls on one token the stored
\* expiration never decreases: no successful Update replaces an expiration
\* by an earlier one.
C10_NeverDecreases ==
    [][\A p \in Procs :
         (UpdateOk(p)
            /\ IsTime(DataGet(store[secret[p].name], ExpirationKey)))
         => TimeOf(DataGet(store'[secret[p].name], ExpirationKey))
               >= TimeOf(DataGet(store[secret[p].name], ExpirationKey))]_vars

\* The tracked token's stored expiration, in ticks.
RecExpiresAt == TimeOf(DataGet(store[RecName], ExpirationKey))

\* The record has not expired: now < expiresAt.
RecAlive ==
    /\ Has(store, RecName)
    /\ IsTime(DataGet(store[RecName], ExpirationKey))
    /\ clock < RecExpiresAt

\* RotationDue: shouldRotate would answer true now. Fresh: it would answer
\* false.
RecRotationDue == ShouldRotateNow(RecToken).rotate

RecFresh ==
    /\ ShouldRotateNow(RecToken).err = "nil"
    /\ ~ShouldRotateNow(RecToken).rotate

Expired(s, t) ==
    /\ ~s.nilData
    /\ IsTime(DataGet(s, ExpirationKey))
    /\ t > TimeOf(DataGet(s, ExpirationKey))

\* C12: Expired is terminal for the manager. Once the clock has passed a
\* Secret's expiration, no step of createToken, getToken, refreshToken or
\* shouldRotate leaves that Secret with an expiration the clock has not
\* passed.
C12_ExpiredIsTerminal ==
    [][\A n \in DOMAIN store :
         (Expired(store[n], clock) /\ ext' = ext)
         => (Has(store', n) /\ Expired(store'[n], clock'))]_vars

\* The steps of getToken and of shouldRotate.
ReadStep(p) ==
    \/ Step(p, "idle", "getToken:ret")
    \/ Step(p, "idle", "shouldRotate:112")
    \/ Step(p, "idle", "shouldRotate:ret")
    \/ Step(p, "shouldRotate:112", "shouldRotate:ret")

OnlyGets(cs) == \A i \in 1..Len(cs) : cs[i].op = "Get"

\* C13: getToken and shouldRotate never change the store. Every step of
\* theirs, whatever the text and whether it ends in a result or an error,
\* leaves the store as it was, and the only store call they make is Get.
C13_ReadOnly ==
    /\ [][\A p \in Procs :
            ReadStep(p) => (store' = store /\ OnlyGets(calls'[p]))]_vars
    /\ [](\A p \in Procs :
            pc[p] \in {"getToken:ret", "shouldRotate:112", "shouldRotate:ret"}
            => OnlyGets(calls[p]))

\* getToken has found a Secret without data, returned its error, and the
\* Secret is still in the store.
C13_Witness ==
    \E p \in Procs :
        /\ pc[p] = "getToken:ret"
        /\ ret[p].err = "InvalidSecret"
        /\ calls[p] = <<Call("Get", NameOf(tok[p]))>>
        /\ Has(store, NameOf(tok[p]))
        /\ store[NameOf(tok[p])].nilData

\* Secrets a and b have the same name and the same entries, the expiration
\* apart.
SameButExpiration(a, b) ==
    /\ a.name = b.name
    /\ a.nilData = b.nilData
    /\ DOMAIN a.data \ {ExpirationKey} = DOMAIN b.data \ {ExpirationKey}
    /\ \A f \in DOMAIN a.data \ {ExpirationKey} : a.data[f] = b.data[f]

\* C14: a successful refreshToken changes the expiration of the token's own
\* Secret and nothing else. The Secret it works on is the one it read from
\* the store under the name of the token's id; line 100 changes its
\* expiration entry alone; the successful Update leaves that Secret under
\* that name, every other Secret as it was and the set of names as it was;
\* and no step of the manager takes a name out of the store.
C14_RefreshFrame ==
    /\ [][\A p \in Procs :
            /\ Step(p, "idle", "refreshToken:100")
               => (secret'[p] = store[NameOf(tok'[p])] /\ store' = store)
            /\ Step(p, "refreshToken:100", "refreshToken:102")
               => (SameButExpiration(secret[p], secret'[p]) /\ store' = store)
            /\ UpdateOk(p)
               => /\ secret[p].name = NameOf(tok[p])
                  /\ DOMAIN store' = DOMAIN store
                  /\ store'[secret[p].name] = secret[p]
                  /\ \A n \in DOMAIN store \ {secret[p].name} :
                        store'[n] = store[n]]_vars
    /\ [][ext' = ext => DOMAIN store \subseteq DOMAIN store']_vars

\* A refreshToken succeeded next to the Secret of another token: the
\* expiration it found is replaced, the token's id, secret, usage flags,
\* groups and description are the ones createToken wrote.
C14_Witness ==
    \E p \in Procs :
        /\ pc[p] = "refreshToken:ret"
        /\ ret[p].err = "nil"
        /\ ext = 0
        /\ Cardinality(DOMAIN store) = 2
        /\ Has(store, NameOf(tok[p]))
        /\ IsTime(read[p])
        /\ DataGet(store[NameOf(tok[p])], ExpirationKey) # read[p]
        /\ SameButExpiration(store[NameOf(tok[p])],
                             NewSecret(Rep("a", IdLen), Rep("x", SecretLen),
                                       0, DefaultTokenTTL))

\* The store calls cs are the calls ops, in that order, or the first few of
\* them.
CallsWithin(cs, ops_) ==
    /\ Len(cs) <= Len(ops_)
    /\ \A i \in 1..Len(cs) : cs[i].op = ops_[i]

\* The error getToken is to return for a text in the current store: the
\* grammar error, the store's NotFound, the error for a Secret without
\* data, or none.
GetError(token) ==
    IF ~Matches(token) THEN "Malformed"
    ELSE IF ~Has(store, NameOf(token)) THEN "NotFound"
    ELSE IF store[NameOf(token)].nilData THEN "InvalidSecret"
    ELSE "nil"

\* C15: store errors are passed on and nothing is retried. In one call
\* createToken makes at most one Create, getToken and shouldRotate at most
\* one Get, refreshToken at most one Get and then at most one Update. A
\* failed Create, Get or Update ends the operation with the store's error
\* and no further store call; when getToken fails inside refreshToken or
\* shouldRotate, its error is the one returned and there is no Update.
C15_NoRetry ==
    /\ [](\A p \in Procs :
            /\ pc[p] \in {"createToken:68", "createToken:ret"}
               => CallsWithin(calls[p], <<"Create">>)
            /\ pc[p] \in {"getToken:ret", "shouldRotate:112", "shouldRotate:ret"}
               => CallsWithin(calls[p], <<"Get">>)
            /\ pc[p] \in {"refreshToken:100", "refreshToken:102",
                          "refreshToken:ret"}
               => CallsWithin(calls[p], <<"Get", "Update">>))
    /\ [][\A p \in Procs :
            /\ (Step(p, "createToken:68", "createToken:ret")
                  /\ Has(store, secret[p].name))
               => /\ ret'[p].err = "AlreadyExists"
                  /\ calls'[p] = <<Call("Create", secret[p].name)>>
            /\ (Step(p, "refreshToken:102", "refreshToken:ret")
                  /\ ~Has(store, secret[p].name))
               => /\ ret'[p].err = "NotFound"
                  /\ calls'[p] = <<Call("Get", secret[p].name),
                                   Call("Update", secret[p].name)>>
            /\ (\/ Step(p, "idle", "getToken:ret")
                \/ Step(p, "idle", "refreshToken:ret")
                \/ Step(p, "idle", "shouldRotate:ret"))
               => /\ ret'[p].err = GetError(tok'[p])
                  /\ calls'[p] = IF Matches(tok'[p])
                                 THEN <<Call("Get", NameOf(tok'[p]))>>
                                 ELSE <<>>
            /\ (\/ Step(p, "idle", "refreshToken:ret")
                \/ Step(p, "idle", "shouldRotate:ret"))
               => (ret'[p].err # "nil" /\ store' = store)
            /\ (\/ Step(p, "idle", "refreshToken:100")
                \/ Step(p, "idle", "shouldRotate:112"))
               => GetError(tok'[p]) = "nil"]_vars

\* refreshToken's Get failed: refreshToken returned NotFound after that one
\* call, without an Update.
C15_Witness ==
    \E p \in Procs :
        /\ pc[p] = "refreshToken:ret"
        /\ ret[p].err = "NotFound"
        /\ calls[p] = <<Call("Get", NameOf(tok[p]))>>

\* What refreshToken does when it runs in store st at the one clock value
\* t: its error, the store it leaves and its store calls (lines 95-103).
RefreshNow(st, token, t, ttl) ==
    LET g == getToken(st, token) IN
    IF g.err # "nil"
    THEN [err |-> g.err, store |-> st, calls |-> g.calls]
    ELSE LET s == DataSet(g.secret, ExpirationKey, Format(t + ttl))
             u == StoreUpdate(st, s)
         IN  [err |-> u.err, store |-> u.store,
              calls |-> Append(g.calls, Call("Update", s.name))]

\* The well-formed texts with the id of text t and another secret.
Siblings(t) ==
    { u \in TokenTexts :
        /\ Matches(u)
        /\ u # t
        /\ FindStringSubmatch(u)[2] = FindStringSubmatch(t)[2] }

\* C16: lookup depends on the id alone. In every reachable store and at
\* every clock value, two well-formed texts with one id and two secrets get
\* the same from getToken, shouldRotate and refreshToken: the same store
\* key, the same result or error, the same store afterwards. And an
\* operation that was handed one of them did in its first step (the one
\* that reads the text) what getToken gives for the other.
C16_IdAlone ==
    /\ [](\A t \in TokenTexts :
            Matches(t)
            => \A u \in Siblings(t) :
                 /\ getToken(store, t) = getToken(store, u)
                 /\ ShouldRotateNow(t) = ShouldRotateNow(u)
                 /\ RefreshNow(store, t, clock, DefaultTokenTTL)
                      = RefreshNow(store, u, clock, DefaultTokenTTL))
    /\ [][\A p \in Procs :
            (/\ pc[p] = "idle"
             /\ pc'[p] \in {"getToken:ret", "refreshToken:100",
                            "refreshToken:ret", "shouldRotate:112",
                            "shouldRotate:ret"}
             /\ Matches(tok'[p]))
            => \A u \in Siblings(tok'[p]) :
                 /\ calls'[p] = <<Call("Get", NameOf(u))>>
                 /\ pc'[p] \in Returned => ret'[p].err = getToken(store, u).err
                 /\ pc'[p] \notin Returned => getToken(store, u).err = "nil"
                 /\ pc'[p] \notin {"refreshToken:ret", "shouldRotate:ret"}
                    => secret'[p] = getToken(store, u).secret
                 /\ store' = store]_vars

\* refreshToken has succeeded on a text whose secret is not the stored one.
C16_Witness ==
    \E p \in Procs :
        /\ pc[p] = "refreshToken:ret"
        /\ ret[p].err = "nil"
        /\ Len(calls[p]) = 2
        /\ Has(store, NameOf(tok[p]))
        /\ ~store[NameOf(tok[p])].nilData
        /\ store[NameOf(tok[p])].data["token-secret"]
               # FindStringSubmatch(tok[p])[3]
        /\ written[NameOf(tok[p])] = clock

\* C17: createToken draws again when the text it drew fails the grammar. A
\* createToken that has drawn one text, and that text fails the grammar,
\* does not return with the grammar error: it returns an error only after
\* more draws than one. (createToken_Build is the call's first draw and
\* tok[p] the text drawn.)
C17_RetriesGeneration ==
    \A p \in Procs :
        ~(/\ pc[p] = "createToken:ret"
          /\ tok[p] \in GenTexts
          /\ ~Matches(tok[p])
          /\ ret[p].err # "nil")

\* C18: the secret is return-once. The token text is returned by a
\* successful createToken and by nothing else, and the Secret that getToken
\* returns has no entry that holds the token's secret.
C18_ReturnOnce ==
    \A p \in Procs :
        /\ (pc[p] \in Returned /\ ret[p].token # <<>>)
           => (pc[p] = "createToken:ret" /\ ret[p].err = "nil")
        /\ pc[p] = "getToken:ret"
           => "token-secret" \notin DOMAIN secret[p].data

=============================================================================
